---- MODULE Spec2Model ----
(***************************************************************************)
(* Business-idea generation pipeline (sherki99/idea_generator).            *)
(*                                                                         *)
(* Conventions of the translation                                          *)
(*   - Python None is the record None.                                     *)
(*   - A pydantic model instance is a record with a field "model" naming   *)
(*     its class; model_dump() yields the same record without that field   *)
(*     (a plain dict), validation puts it back.                            *)
(*   - An f-string is the tuple of its string parts.                       *)
(*   - A float score is written in tenths (8.0 is 80, 7.5 is 75); an int   *)
(*     score (frequency_score, urgency_score) is written as it is.         *)
(*   - An Optional[str] or Optional number field holds Absent (<<>>) for   *)
(*     None, the f-string tuple for a text and <<n>> for a number n.       *)
(*   - A dict of market segments is [type |-> "dict", keys |-> ...], a     *)
(*     list of them [type |-> "list", len |-> n].                          *)
(***************************************************************************)
EXTENDS Integers, Sequences, FiniteSets, TLC

VARIABLES state, active, executed, last, harness, result

vars == <<state, active, executed, last, harness, result>>

\* ------------------------------------------------------------------------
\* Plain values
\* ------------------------------------------------------------------------

None == [model |-> "NoneType"]

\* None in an Optional field of text or number type
Absent == << >>

Min(a, b) == IF a < b THEN a ELSE b

Max(a, b) == IF a > b THEN a ELSE b

\* str(n) for the small naturals the agents format
Str(n) ==
    CASE n = 0 -> "0" [] n = 1 -> "1" [] n = 2 -> "2" [] n = 3 -> "3"
      [] n = 4 -> "4" [] n = 5 -> "5" [] n = 6 -> "6" [] n = 7 -> "7"
      [] n = 8 -> "8" [] n = 9 -> "9" [] OTHER -> "many"

\* s[:n]
Take(s, n) == SubSeq(s, 1, Min(n, Len(s)))

\* ------------------------------------------------------------------------
\* graph/state.py : the schema
\* ------------------------------------------------------------------------

Slots ==
    {"market_research", "pain_point_discovery", "user_persona_analysis",
     "niche_opportunity", "business_model_generator"}

\* the class of the value a research-record slot holds
SlotSchema(s) ==
    CASE s = "market_research" -> "MarketResearchOutput"
      [] s = "pain_point_discovery" -> "PainPointDiscoveryOutput"
      [] s = "user_persona_analysis" -> "UserPersonaAnalysisOutput"
      [] s = "niche_opportunity" -> "NicheOpportunityScannerOutput"
      [] s = "business_model_generator" -> "BusinessModelGeneratorOutput"

\* the fields of each model class with their defaults (a required field has
\* no default: its entry here is never used by a valid construction)
Defaults(schema) ==
    CASE schema = "MarketTrend" ->
           [trend_name |-> None, description |-> None, time_horizon |-> None,
            relevance_score |-> None]
      [] schema = "CompetitorInfo" ->
           [name |-> None, description |-> None, market_position |-> None]
      [] schema = "MarketResearchOutput" ->
           [market_trends |-> <<>>, competitors |-> <<>>,
            market_saturation_level |-> None, growth_opportunities |-> <<>>,
            research_sources |-> <<>>, confidence_score |-> None]
      [] schema = "PainPoint" ->
           [problem_description |-> None, frequency_score |-> None,
            urgency_score |-> None, impact_level |-> None,
            affected_audience |-> None, source_mentions |-> None,
            source_platforms |-> <<>>, automation_potential |-> None]
      [] schema = "PainPointDiscoveryOutput" ->
           [pain_points |-> <<>>, top_pain_categories |-> <<>>,
            data_sources |-> <<>>, total_mentions_analyzed |-> None,
            analysis_date_range |-> None, confidence_score |-> None]
      [] schema = "UserPersona" ->
           [persona_name |-> None, persona_description |-> None,
            pain_points |-> <<>>]
      [] schema = "UserPersonaAnalysisOutput" ->
           [primary_personas |-> <<>>, secondary_personas |-> <<>>,
            market_segmentation |-> [type |-> "dict", keys |-> <<>>],
            research_methodology |-> <<>>, sample_size |-> Absent,
            confidence_score |-> None]
      [] schema = "NicheOpportunity" ->
           [niche_name |-> None, target_persona |-> None,
            trend_score |-> None]
      [] schema = "NicheOpportunityScannerOutput" ->
           [niches |-> <<>>, confidence_score |-> None,
            research_sources |-> <<>>]
      [] schema = "BusinessIdea" ->
           [idea_name |-> None, niche |-> None, target_persona |-> None,
            feasibility_score |-> None]
      [] schema = "BusinessModelGeneratorOutput" ->
           [ideas |-> <<>>, recommended_idea |-> Absent,
            confidence_score |-> None]
      [] schema = "Phase1ResearchOutput" ->
           [market_research |-> None, pain_point_discovery |-> None,
            user_persona_analysis |-> None, niche_opportunity |-> None,
            business_model_generator |-> None, research_summary |-> Absent,
            key_opportunities |-> Absent, research_quality_score |-> Absent,
            next_steps_recommendation |-> Absent]

Fields(schema) == DOMAIN Defaults(schema)

\* the list-of-model fields of an output class, with the class of their items
ItemSchema(schema) ==
    CASE schema = "MarketResearchOutput" ->
           [market_trends |-> "MarketTrend", competitors |-> "CompetitorInfo"]
      [] schema = "PainPointDiscoveryOutput" -> [pain_points |-> "PainPoint"]
      [] schema = "UserPersonaAnalysisOutput" ->
           [primary_personas |-> "UserPersona",
            secondary_personas |-> "UserPersona"]
      [] schema = "NicheOpportunityScannerOutput" ->
           [niches |-> "NicheOpportunity"]
      [] schema = "BusinessModelGeneratorOutput" -> [ideas |-> "BusinessIdea"]

\* Model(**kw): the declared fields only (pydantic ignores extra keywords),
\* defaults for the ones not given
New(schema, kw) ==
    [f \in Fields(schema) \cup {"model"} |->
        IF f = "model" THEN schema
        ELSE IF f \in DOMAIN kw THEN kw[f] ELSE Defaults(schema)[f]]

IsModel(v) == "model" \in DOMAIN v

\* model_dump() of an item model
DumpItem(v) == [f \in DOMAIN v \ {"model"} |-> v[f]]

\* model_dump() of an output model: its item lists become lists of dicts
DumpOutput(v) ==
    LET items == ItemSchema(v.model)
    IN  [f \in DOMAIN v \ {"model"} |->
            IF f \in DOMAIN items
            THEN [i \in 1..Len(v[f]) |-> DumpItem(v[f][i])]
            ELSE v[f]]

\* Phase1ResearchOutput.model_dump()
model_dump(ro) ==
    [f \in DOMAIN ro \ {"model"} |->
        IF f \in Slots /\ ro[f] # None THEN DumpOutput(ro[f]) ELSE ro[f]]

\* validation that keeps an item dict as it is
ValidateItemKept(schema, d) == d

\* validation of an item: an instance is kept, a dict is constructed
ValidateItem(schema, d) == IF IsModel(d) THEN d ELSE New(schema, d)

\* validation of an output value: an instance is kept, a dict is constructed
\* with its item lists validated
ValidateOutput(schema, d) ==
    IF d = None \/ IsModel(d) THEN d
    ELSE LET items == ItemSchema(schema)
         IN  New(schema,
                 [f \in DOMAIN d |->
                     IF f \in DOMAIN items
                     THEN [i \in 1..Len(d[f]) |->
                              ValidateItem(items[f], d[f][i])]
                     ELSE d[f]])

\* validation of the research_output field of the state: an instance is
\* kept, a dict becomes a Phase1ResearchOutput with every slot validated
ValidateResearchOutput(d) ==
    IF d = None \/ IsModel(d) THEN d
    ELSE New("Phase1ResearchOutput",
             [f \in DOMAIN d |->
                 IF f \in Slots THEN ValidateOutput(SlotSchema(f), d[f])
                 ELSE d[f]])

\* {**(state.research_output.model_dump() if state.research_output else {}),
\*  slot: value}
MergeSlot(ro, slot, value) ==
    LET base == IF ro # None THEN model_dump(ro) ELSE << >>
    IN  [f \in DOMAIN base \cup {slot} |->
            IF f = slot THEN value ELSE base[f]]

\* ------------------------------------------------------------------------
\* Inputs: what the user, the signal providers and the inference client
\* give a run
\* ------------------------------------------------------------------------

\* main.py builds one UserInput; a second one widens the inputs
UserInputs ==
    {[industry_market |-> "transportation", country_region |-> "Italia"],
     [industry_market |-> "E-commerce", country_region |-> "United States"]}

\* str(e) of the exception an inference call raises
LLMErrors == {"Request timed out", "Could not parse function call"}

\* no exception
NoError == "no error"

\* str(e) of the TypeError json.dumps raises on data it cannot serialise
DumpsErrors == {NoError, "Object is not JSON serializable"}

\* what a provider call returns when it does not raise
RawResult == "raw results"

\* the outcome of llm.with_structured_output(schema).invoke(prompt)
Returned(v) == [ok |-> TRUE, value |-> v]

Raised(e) == [ok |-> FALSE, error |-> e]

\* schema-valid values the model may return for each target schema
LLMValues(schema) ==
    CASE schema = "MarketResearchOutput" ->
           {New(schema, [market_saturation_level |-> <<"low">>,
                         confidence_score |-> 40]),
            New(schema,
                [market_trends |->
                    <<New("MarketTrend",
                          [trend_name |-> <<"Fleet telematics">>,
                           description |-> <<"Growing">>,
                           time_horizon |-> <<"long-term">>,
                           relevance_score |-> 90]),
                      New("MarketTrend",
                          [trend_name |-> <<"Route planning">>,
                           description |-> <<"Stable">>,
                           time_horizon |-> <<"short-term">>,
                           relevance_score |-> 55])>>,
                 market_saturation_level |-> <<"high">>,
                 research_sources |-> <<"llm">>,
                 confidence_score |-> 85])}
      [] schema = "PainPointDiscoveryOutput" ->
           {New(schema, [total_mentions_analyzed |-> 0,
                         analysis_date_range |-> <<"none">>,
                         confidence_score |-> 20]),
            New(schema,
                [pain_points |->
                    [i \in 1..3 |->
                        New("PainPoint",
                            [problem_description |-> <<"Invoice matching">>,
                             frequency_score |-> 10 - 4 * (i - 1),
                             urgency_score |-> 1 + 4 * (i - 1),
                             impact_level |-> <<"high">>,
                             affected_audience |-> <<"dispatchers">>,
                             source_mentions |-> 12 * i,
                             source_platforms |-> <<"twitter">>,
                             automation_potential |-> 95])],
                 top_pain_categories |-> <<<<"billing">>, <<"dispatch">>>>,
                 data_sources |-> <<"reddit", "twitter">>,
                 total_mentions_analyzed |-> 72,
                 analysis_date_range |-> <<"past week">>,
                 confidence_score |-> 90])}
      [] schema = "UserPersonaAnalysisOutput" ->
           {New(schema,
                [market_segmentation |-> [type |-> "list", len |-> 2],
                 confidence_score |-> 50]),
            New(schema,
                [primary_personas |->
                    <<New("UserPersona",
                          [persona_name |-> <<"Fleet manager">>,
                           persona_description |-> <<"Runs 40 vehicles">>,
                           pain_points |-> << <<"Paperwork">> >>])>>,
                 market_segmentation |->
                    [type |-> "dict", keys |-> <<"by_role">>],
                 research_methodology |-> <<"llm">>,
                 sample_size |-> <<40>>,
                 confidence_score |-> 80])}
      [] schema = "NicheOpportunityScannerOutput" ->
           {New(schema, [confidence_score |-> 30]),
            New(schema,
                [niches |->
                    [i \in 1..3 |->
                        New("NicheOpportunity",
                            [niche_name |-> <<"Niche ", Str(i)>>,
                             target_persona |-> <<"Fleet manager">>,
                             trend_score |-> 30 * i])],
                 research_sources |-> <<"reddit">>,
                 confidence_score |-> 70])}
      [] schema = "BusinessModelGeneratorOutput" ->
           {New(schema, [confidence_score |-> 10]),
            New(schema,
                [ideas |->
                    [i \in 1..2 |->
                        New("BusinessIdea",
                            [idea_name |-> <<"Idea ", Str(i)>>,
                             niche |-> <<"Niche ", Str(i)>>,
                             target_persona |-> <<"Fleet manager">>,
                             feasibility_score |-> 45 * i])],
                 recommended_idea |-> <<"Idea ", "1">>,
                 confidence_score |-> 75])}

LLMOutcomes(schema) ==
    {Returned(v) : v \in LLMValues(schema)} \cup {Raised(e) : e \in LLMErrors}

\* a gather loop is explored with every call failing, and with at most this
\* many of its calls failing
MaxFailures == 1

\* which calls of a gather loop succeed: one flag per query
Outcomes(n) ==
    {ok \in [1..n -> BOOLEAN] :
        LET failed == Cardinality({i \in 1..n : ~ok[i]})
        IN  failed <= MaxFailures \/ failed = n}

\* state.tools_used + [...]: the ledger a completing agent returns
LedgerReplaced(tools_used, added) == added

Ledger(tools_used, added) == tools_used \o added

\* ------------------------------------------------------------------------
\* The gather loops
\* ------------------------------------------------------------------------

\* the provider calls a loop over `queries` issues, each in its own guard
Calls(tool, queries, ok) ==
    [i \in 1..Len(queries) |->
        [tool |-> tool, query |-> queries[i], ok |-> ok[i]]]

Succeeded(call) == call.ok

\* the entries the loop appended: one per call that did not raise
Gathered(calls) ==
    LET done == SelectSeq(calls, Succeeded)
    IN  [i \in 1..Len(done) |->
            [query |-> done[i].query, results |-> RawResult]]

\* what one run of an agent did besides returning its update: the provider
\* calls and inference calls it made, the slots it built a fallback value for,
\* the value it built for its own slot, and whether something other than a
\* provider call or an inference call raised
Events(provider_calls, llm_calls, fallbacks, produced, other_fault) ==
    [provider_calls |-> provider_calls, llm_calls |-> llm_calls,
     fallbacks |-> fallbacks, produced |-> produced,
     other_fault |-> other_fault]

\* ------------------------------------------------------------------------
\* agents/market_research_agent.py
\* ------------------------------------------------------------------------

NumFallbackTrends == 3

NumFallbackPainPoints == 5

\* the same constructor without the [:3] and [:5] limits
parse_api_data_untruncated(trend_data, reddit_insights, industry) ==
    [market_trends |->
        [i \in 1..Len(trend_data) |->
            New("MarketTrend",
                [trend_name |-> <<industry, " Trend ", Str(i)>>,
                 description |->
                    <<"Rising interest in ">> \o trend_data[i].query
                        \o <<" based on search data">>,
                 relevance_score |-> 80 - 10 * (i - 1),
                 time_horizon |-> <<"medium-term">>])],
     pain_points |->
        [i \in 1..Len(reddit_insights) |->
            New("PainPoint",
                [problem_description |->
                    <<"Common issue found: ">> \o reddit_insights[i].query,
                 frequency_score |-> 7 - (i - 1),
                 urgency_score |-> 6,
                 impact_level |-> IF i - 1 < 2 THEN <<"medium">> ELSE <<"low">>,
                 affected_audience |-> <<industry, " professionals">>,
                 source_mentions |-> 10 - (i - 1) * 2,
                 source_platforms |-> <<"reddit">>,
                 automation_potential |-> 80 - 10 * (i - 1)])]]

parse_api_data(trend_data, reddit_insights, industry) ==
    LET Trend(i, trend_item) ==
            New("MarketTrend",
                [trend_name |-> <<industry, " Trend ", Str(i + 1)>>,
                 description |->
                    <<"Rising interest in ">> \o trend_item.query
                        \o <<" based on search data">>,
                 relevance_score |-> 80 - 10 * i,
                 time_horizon |-> <<"medium-term">>])
        Pain(i, reddit_item) ==
            New("PainPoint",
                [problem_description |->
                    <<"Common issue found: ">> \o reddit_item.query,
                 frequency_score |-> 7 - i,
                 urgency_score |-> 6,
                 impact_level |-> IF i < 2 THEN <<"medium">> ELSE <<"low">>,
                 affected_audience |-> <<industry, " professionals">>,
                 source_mentions |-> 10 - i * 2,
                 source_platforms |-> <<"reddit">>,
                 automation_potential |-> 80 - 10 * i])
    IN  [market_trends |->
            LET top == Take(trend_data, NumFallbackTrends)
            IN  [i \in 1..Len(top) |-> Trend(i - 1, top[i])],
         pain_points |->
            LET top == Take(reddit_insights, NumFallbackPainPoints)
            IN  [i \in 1..Len(top) |-> Pain(i - 1, top[i])]]

trend_queries(industry) ==
    << <<industry, " automation AI">>, <<industry, " machine learning">>,
       <<industry, " software tools">>, <<industry, " productivity">>,
       <<industry, " workflow automation">> >>

reddit_queries(industry) ==
    << <<industry, " problems">>, <<industry, " automation challenges">>,
       <<industry, " manual work issues">> >>

\* the MarketResearchOutput built when the first inference call raises
MarketResearchFallback(industry, fallback_trends) ==
    New("MarketResearchOutput",
        [market_trends |-> fallback_trends,
         competitors |->
            <<New("CompetitorInfo",
                  [name |-> <<industry, " Leader">>,
                   description |->
                      <<"Major player in ", industry, " automation">>,
                   market_position |-> <<"leader">>])>>,
         market_saturation_level |-> <<"medium">>,
         growth_opportunities |->
            << <<"AI-powered automation in ", industry>>,
               <<"SMB-focused ", industry, " tools">>,
               <<"Integration solutions for ", industry>> >>,
         research_sources |-> <<"google_trends", "reddit">>,
         confidence_score |-> 60])

\* the PainPointDiscoveryOutput built when the second inference call raises
MarketPainPointsFallback(industry, fallback_pain_points, reddit_insights) ==
    New("PainPointDiscoveryOutput",
        [pain_points |-> fallback_pain_points,
         top_pain_categories |->
            << <<industry, " manual processes">>, <<industry, " data entry">>,
               <<industry, " reporting tasks">> >>,
         data_sources |-> <<"reddit">>,
         total_mentions_analyzed |-> Len(reddit_insights) * 3,
         analysis_date_range |-> <<"past month">>,
         confidence_score |-> 60])

market_research_agent(st, trend_ok, reddit_ok, llm_market, llm_pain, dumps_error) ==
    LET industry == st.user_input.industry_market
        trend_calls == Calls("get_trend", trend_queries(industry), trend_ok)
        reddit_calls ==
            Calls("search_only", reddit_queries(industry), reddit_ok)
        trend_data == Gathered(trend_calls)
        reddit_insights == Gathered(reddit_calls)
        fallback == parse_api_data(trend_data, reddit_insights, industry)
        structured_market_research ==
            IF llm_market.ok THEN llm_market.value
            ELSE MarketResearchFallback(industry, fallback.market_trends)
        structured_pain_points ==
            IF llm_pain.ok THEN llm_pain.value
            ELSE MarketPainPointsFallback(industry, fallback.pain_points,
                                          reddit_insights)
        research_output ==
            New("Phase1ResearchOutput",
                [market_research |-> structured_market_research,
                 pain_point_discovery |-> structured_pain_points,
                 research_summary |->
                    <<"Market research completed for ", industry,
                      " industry: Found ",
                      Str(Len(structured_market_research.market_trends)),
                      " market trends, Identified ",
                      Str(Len(structured_pain_points.pain_points)),
                      " pain points, Market saturation: ">>
                        \o structured_market_research.market_saturation_level,
                 research_quality_score |->
                    <<Max(structured_market_research.confidence_score,
                          structured_pain_points.confidence_score)>>,
                 next_steps_recommendation |->
                    <<"Proceed to user persona analysis and business idea generation.">>])
    IN  IF dumps_error # NoError
        THEN \* json.dumps of the raw research raises: the outer handler
             [update |->
                [current_step |-> "market_research_failed",
                 errors |->
                    Append(st.errors,
                           <<"Market research failed: ", dumps_error>>)],
              events |->
                Events(trend_calls \o reddit_calls, <<>>, {}, None, TRUE)]
        ELSE [update |->
                [research_output |-> research_output,
                 current_step |-> "market_research_complete",
                 tools_used |->
                    Ledger(st.tools_used, <<"google_trends", "reddit_search", "azure_llm">>),
                 phase1_complete |-> TRUE],
              events |->
                Events(trend_calls \o reddit_calls,
                       <<[schema |-> "MarketResearchOutput",
                          ok |-> llm_market.ok],
                         [schema |-> "PainPointDiscoveryOutput",
                          ok |-> llm_pain.ok]>>,
                       {s \in {"market_research", "pain_point_discovery"} :
                           IF s = "market_research" THEN ~llm_market.ok
                           ELSE ~llm_pain.ok},
                       structured_market_research, FALSE)]

\* ------------------------------------------------------------------------
\* agents/pain_point_discovery_agent.py
\* ------------------------------------------------------------------------

twitter_queries(industry) ==
    << <<industry, " problems">>, <<industry, " issues">>,
       <<industry, " challenges">> >>

\* the PainPointDiscoveryOutput built when the inference call raises
PainPointFallback(industry, reddit_insights) ==
    New("PainPointDiscoveryOutput",
        [pain_points |->
            <<New("PainPoint",
                  [problem_description |-> <<"Manual processes in ", industry>>,
                   frequency_score |-> 8,
                   urgency_score |-> 7,
                   impact_level |-> <<"high">>,
                   affected_audience |-> <<industry, " professionals">>,
                   source_mentions |-> 10,
                   source_platforms |-> <<"reddit">>,
                   automation_potential |-> 80])>>,
         top_pain_categories |->
            << <<industry, " manual processes">>, <<industry, " data entry">>,
               <<industry, " reporting tasks">> >>,
         data_sources |-> <<"reddit">>,
         total_mentions_analyzed |-> Len(reddit_insights) * 3,
         analysis_date_range |-> <<"past month">>,
         confidence_score |-> 60])

\* the same agent with a fallback value that quotes the exception
pain_point_discovery_agent_quoting(st, reddit_ok, twitter_ok, llm, dumps_error) ==
    LET industry == st.user_input.industry_market
        reddit_calls ==
            Calls("search_only", reddit_queries(industry), reddit_ok)
        twitter_calls ==
            Calls("search_tweets", twitter_queries(industry), twitter_ok)
        structured_pain_points ==
            IF llm.ok THEN llm.value
            ELSE [PainPointFallback(industry, Gathered(reddit_calls))
                    EXCEPT !.analysis_date_range = <<llm.error>>]
    IN  IF dumps_error # NoError
        THEN [update |->
                [current_step |-> "pain_point_discovery_failed",
                 errors |->
                    Append(st.errors,
                           <<"Pain point discovery failed: ", dumps_error>>)],
              events |->
                Events(reddit_calls \o twitter_calls, <<>>, {}, None, TRUE)]
        ELSE [update |->
                [research_output |->
                    MergeSlot(st.research_output, "pain_point_discovery",
                              structured_pain_points),
                 pain_point_discovery |-> structured_pain_points,
                 current_step |-> "pain_point_discovery_complete",
                 tools_used |->
                    Ledger(st.tools_used, <<"reddit_search", "azure_llm">>)],
              events |->
                Events(reddit_calls \o twitter_calls,
                       <<[schema |-> "PainPointDiscoveryOutput",
                          ok |-> llm.ok]>>,
                       IF llm.ok THEN {} ELSE {"pain_point_discovery"},
                       structured_pain_points, FALSE)]

pain_point_discovery_agent(st, reddit_ok, twitter_ok, llm, dumps_error) ==
    LET industry == st.user_input.industry_market
        reddit_calls ==
            Calls("search_only", reddit_queries(industry), reddit_ok)
        twitter_calls ==
            Calls("search_tweets", twitter_queries(industry), twitter_ok)
        reddit_insights == Gathered(reddit_calls)
        structured_pain_points ==
            IF llm.ok THEN llm.value
            ELSE PainPointFallback(industry, reddit_insights)
    IN  IF dumps_error # NoError
        THEN [update |->
                [current_step |-> "pain_point_discovery_failed",
                 errors |->
                    Append(st.errors,
                           <<"Pain point discovery failed: ", dumps_error>>)],
              events |->
                Events(reddit_calls \o twitter_calls, <<>>, {}, None, TRUE)]
        ELSE [update |->
                [research_output |->
                    MergeSlot(st.research_output, "pain_point_discovery",
                              structured_pain_points),
                 pain_point_discovery |-> structured_pain_points,
                 current_step |-> "pain_point_discovery_complete",
                 tools_used |->
                    Ledger(st.tools_used, <<"reddit_search", "azure_llm">>)],
              events |->
                Events(reddit_calls \o twitter_calls,
                       <<[schema |-> "PainPointDiscoveryOutput",
                          ok |-> llm.ok]>>,
                       IF llm.ok THEN {} ELSE {"pain_point_discovery"},
                       structured_pain_points, FALSE)]

\* ------------------------------------------------------------------------
\* agents/user_persona_analysis_agent.py
\* ------------------------------------------------------------------------

persona_queries(industry) ==
    << <<industry, " customer demographics">>, <<industry, " buyer behavior">>,
       <<industry, " decision makers">>, <<"who uses ", industry, " tools">>,
       <<industry, " budget authority">> >>

\* the UserPersonaAnalysisOutput built when the inference call, or the
\* adjustment of its result, raises
PersonaFallback(industry, persona_insights) ==
    New("UserPersonaAnalysisOutput",
        [primary_personas |->
            <<New("UserPersona",
                  [persona_name |-> <<industry, " Professional">>,
                   persona_description |->
                      <<"Primary user of ", industry, " tools and solutions">>,
                   pain_points |->
                      << <<"Manual processes in ", industry>>,
                         <<"Time-consuming tasks">>,
                         <<"Lack of automation">> >>,
                   price_sensitivity |->
                      <<"Moderate - values ROI over lowest price">>,
                   persona_size |-> <<"60% of target market">>])>>,
         secondary_personas |-> <<>>,
         market_segmentation |->
            [type |-> "dict", keys |-> <<"by_company_size", "by_role">>],
         research_methodology |-> <<"reddit_analysis", "demographic_research">>,
         sample_size |-> <<Len(persona_insights) * 3>>,
         confidence_score |-> 60])

\* lines 141-147: a list of segments becomes a dict keyed segment_i, a
\* missing (or zero) sample size becomes three per gathered insight
AdjustPersonas(v, persona_insights) ==
    LET seg == v.market_segmentation
        segmented ==
            IF seg.type = "list"
            THEN [type |-> "dict",
                  keys |-> [i \in 1..seg.len |-> "segment_" \o Str(i - 1)]]
            ELSE seg
        sized ==
            IF v.sample_size = Absent \/ v.sample_size = <<0>>
            THEN <<Len(persona_insights) * 3>>
            ELSE v.sample_size
    IN  [v EXCEPT !.market_segmentation = segmented, !.sample_size = sized]

user_persona_analysis_agent(st, reddit_ok, llm, dumps_error) ==
    LET industry == st.user_input.industry_market
        reddit_calls ==
            Calls("search_only", persona_queries(industry), reddit_ok)
        persona_insights == Gathered(reddit_calls)
        structured_personas ==
            IF llm.ok THEN AdjustPersonas(llm.value, persona_insights)
            ELSE PersonaFallback(industry, persona_insights)
    IN  IF dumps_error # NoError
        THEN [update |->
                [current_step |-> "user_persona_analysis_failed",
                 errors |->
                    Append(st.errors,
                           <<"User persona analysis failed: ", dumps_error>>)],
              events |-> Events(reddit_calls, <<>>, {}, None, TRUE)]
        ELSE [update |->
                [research_output |->
                    MergeSlot(st.research_output, "user_persona_analysis",
                              structured_personas),
                 current_step |-> "user_persona_analysis_complete",
                 tools_used |->
                    Ledger(st.tools_used, <<"reddit_search", "azure_llm">>)],
              events |->
                Events(reddit_calls,
                       <<[schema |-> "UserPersonaAnalysisOutput",
                          ok |-> llm.ok]>>,
                       IF llm.ok THEN {} ELSE {"user_persona_analysis"},
                       structured_personas, FALSE)]

\* ------------------------------------------------------------------------
\* agents/niche_opportunity_scanner_agent.py
\* ------------------------------------------------------------------------

\* str(e) of what a provider call raises
ProviderError == "provider unavailable"

\* str(e) of what reading an attribute of None raises
AttributeError(attr) == "'NoneType' object has no attribute '" \o attr \o "'"

\* str(e) of what open() or json.dump raise when the file cannot be written
WriteError == "Permission denied"

MaxTrendPainPoints == 5

\* line 41: the structured pain points, or [] when the slot is empty
NichePainPoints(st) ==
    IF st.research_output.pain_point_discovery # None
    THEN st.research_output.pain_point_discovery.pain_points
    ELSE <<>>

\* line 44: the pain categories, or [industry] when the slot is empty
NicheSubdomains(st) ==
    IF st.research_output.pain_point_discovery # None
    THEN st.research_output.pain_point_discovery.top_pain_categories
    ELSE << <<st.user_input.industry_market>> >>

\* the trend lookups the scanner means to make: rising_trends(industry),
\* then get_trend for each of the first five pain points
NicheTrendQueries(st) ==
    << <<st.user_input.industry_market>> >>
        \o [i \in 1..Min(MaxTrendPainPoints, Len(NichePainPoints(st))) |->
               NichePainPoints(st)[i].problem_description]

\* search_tweets(query, max_results=5, language=language): search_tweets
\* (tools/twitter_search_tool.py) has no parameter `language`, so the call
\* raises TypeError before any request is made
NicheTwitterOk == FALSE

\* lines 52-64: per subdomain one forum call then one social call, each in
\* its own guard
NicheSignalCalls(subdomains, reddit_ok) ==
    [j \in 1..(2 * Len(subdomains)) |->
        LET i == (j + 1) \div 2
            query == subdomains[i] \o <<" problems OR inefficiencies OR pain points">>
        IN  IF j % 2 = 1
            THEN [tool |-> "search_only", query |-> query, ok |-> reddit_ok[i]]
            ELSE [tool |-> "search_tweets", query |-> query,
                  ok |-> NicheTwitterOk]]

\* lines 56-64: every call leaves one entry, its results or its error
NicheSignals(subdomains, calls) ==
    [j \in 1..Len(calls) |->
        LET source == IF calls[j].tool = "search_only" THEN "reddit"
                      ELSE "twitter"
        IN  IF calls[j].ok
            THEN [source |-> source, subdomain |-> subdomains[(j + 1) \div 2],
                  results |-> RawResult]
            ELSE [source |-> source, subdomain |-> subdomains[(j + 1) \div 2],
                  error |-> IF calls[j].tool = "search_only" THEN ProviderError
                            ELSE "search_tweets() got an unexpected keyword argument 'language'"]]

\* trend lookups each in a guard of its own: the ones after the failing one
\* are still made
NicheTrendCallsEachGuarded(queries, failing) ==
    [i \in 1..Len(queries) |->
        [tool |-> IF i = 1 THEN "rising_trends" ELSE "get_trend",
         query |-> queries[i], ok |-> (i # failing)]]

\* lines 67-73: the trend lookups share one guard; `failing` is the index of
\* the lookup that raises (0: none does), and no lookup follows it
NicheTrendCalls(queries, failing) ==
    LET issued == IF failing = 0 THEN Len(queries) ELSE failing
    IN  [i \in 1..issued |->
            [tool |-> IF i = 1 THEN "rising_trends" ELSE "get_trend",
             query |-> queries[i], ok |-> (i # failing)]]

\* lines 67-73: one entry per lookup that returned, then one error entry
NicheTrendData(calls) ==
    [i \in 1..Len(calls) |->
        IF calls[i].ok THEN [results |-> RawResult]
        ELSE [error |-> "Trend fetch failed: " \o ProviderError]]

\* a failure path that also resets the ledger and the record
NicheFailedResetting(st, cause, calls, llm_calls, other_fault) ==
    [update |->
        [current_step |-> "niche_opportunity_scanner_failed",
         errors |->
            Append(st.errors, <<"Niche opportunity scanner failed: ", cause>>),
         tools_used |-> <<>>,
         research_output |-> None],
     events |-> Events(calls, llm_calls, {}, None, other_fault)]

\* a failure path that sets the label and adds no message
NicheFailedSilently(st, cause, calls, llm_calls, other_fault) ==
    [update |-> [current_step |-> "niche_opportunity_scanner_failed"],
     events |-> Events(calls, llm_calls, {}, None, other_fault)]

\* lines 133-138: the outer handler's return
NicheFailed(st, cause, calls, llm_calls, other_fault) ==
    [update |->
        [current_step |-> "niche_opportunity_scanner_failed",
         errors |->
            Append(st.errors, <<"Niche opportunity scanner failed: ", cause>>)],
     events |-> Events(calls, llm_calls, {}, None, other_fault)]

\* the same agent with the file write in a guard of its own: the result is
\* returned whether or not it could be saved
niche_opportunity_scanner_agent_keeping(st, reddit_ok, failing_trend, llm, dumps_error, write_ok) ==
    IF st.research_output = None
    THEN NicheFailed(st, AttributeError("pain_point_discovery"), <<>>, <<>>,
                     FALSE)
    ELSE
    LET subdomains == NicheSubdomains(st)
        signal_calls == NicheSignalCalls(subdomains, reddit_ok)
        trend_calls == NicheTrendCalls(NicheTrendQueries(st), failing_trend)
        calls == signal_calls \o trend_calls
        llm_call == <<[schema |-> "NicheOpportunityScannerOutput",
                       ok |-> llm.ok]>>
    IN  IF dumps_error # NoError
        THEN NicheFailed(st, dumps_error, calls, <<>>, TRUE)
        ELSE IF ~llm.ok
        THEN NicheFailed(st, llm.error, calls, llm_call, FALSE)
        ELSE [update |->
                [research_output |->
                    MergeSlot(st.research_output, "niche_opportunity",
                              llm.value),
                 current_step |-> "niche_opportunity_scanner_complete",
                 tools_used |->
                    Ledger(st.tools_used, <<"reddit_search", "twitter_search", "google_trends", "azure_llm">>)],
              events |-> Events(calls, llm_call, {}, llm.value, ~write_ok)]

niche_opportunity_scanner_agent(st, reddit_ok, failing_trend, llm, dumps_error, write_ok) ==
    IF st.research_output = None
    THEN NicheFailed(st, AttributeError("pain_point_discovery"), <<>>, <<>>,
                     FALSE)
    ELSE
    LET subdomains == NicheSubdomains(st)
        signal_calls == NicheSignalCalls(subdomains, reddit_ok)
        trend_calls == NicheTrendCalls(NicheTrendQueries(st), failing_trend)
        calls == signal_calls \o trend_calls
        llm_call == <<[schema |-> "NicheOpportunityScannerOutput",
                       ok |-> llm.ok]>>
    IN  IF dumps_error # NoError
        THEN NicheFailed(st, dumps_error, calls, <<>>, TRUE)
        ELSE IF ~llm.ok
        THEN NicheFailed(st, llm.error, calls, llm_call, FALSE)
        ELSE IF ~write_ok
        THEN NicheFailed(st, WriteError, calls, llm_call, TRUE)
        ELSE [update |->
                [research_output |->
                    MergeSlot(st.research_output, "niche_opportunity",
                              llm.value),
                 current_step |-> "niche_opportunity_scanner_complete",
                 tools_used |->
                    Ledger(st.tools_used, <<"reddit_search", "twitter_search", "google_trends", "azure_llm">>)],
              events |-> Events(calls, llm_call, {}, llm.value, FALSE)]

\* ------------------------------------------------------------------------
\* agents/business_model_generator_agent.py
\* ------------------------------------------------------------------------

\* the BusinessModelGeneratorOutput built in the handler
BusinessModelFallback ==
    LET fallback_idea ==
            New("BusinessIdea",
                [idea_name |-> <<"Agent-powered Compliance Monitor">>,
                 niche |-> <<"B2B Transportation SaaS">>,
                 target_persona |->
                    <<"Operations managers in transportation companies.">>,
                 feasibility_score |-> 75])
    IN  New("BusinessModelGeneratorOutput",
            [ideas |-> <<fallback_idea>>,
             recommended_idea |-> fallback_idea.idea_name,
             confidence_score |-> 65])

business_model_generator_agent(st, llm, dumps_error) ==
    LET cause ==
            IF st.research_output = None
            THEN AttributeError("user_persona_analysis")
            ELSE IF dumps_error # NoError THEN dumps_error
            ELSE IF ~llm.ok THEN llm.error
            ELSE NoError
        llm_calls ==
            IF st.research_output = None \/ dumps_error # NoError THEN <<>>
            ELSE <<[schema |-> "BusinessModelGeneratorOutput", ok |-> llm.ok]>>
    IN  IF cause = NoError
        THEN [update |->
                [research_output |->
                    MergeSlot(st.research_output, "business_model_generator",
                              llm.value),
                 phase1_complete |-> TRUE,
                 current_step |-> "business_model_generator_complete",
                 tools_used |-> Ledger(st.tools_used, <<"azure_llm">>)],
              events |-> Events(<<>>, llm_calls, {}, llm.value, FALSE)]
        ELSE [update |->
                [business_model_generator |-> BusinessModelFallback,
                 current_step |-> "business_model_generator_fallback",
                 errors |->
                    Append(st.errors,
                           <<"Business model generator failed: ", cause>>)],
              events |->
                Events(<<>>, llm_calls, {"business_model_generator"},
                       BusinessModelFallback,
                       st.research_output # None /\ dumps_error # NoError)]

\* ------------------------------------------------------------------------
\* agents/validate_ideas_agent.py (imported by graph/workflow.py)
\* ------------------------------------------------------------------------

\* the validation stage after the agent template: it reads the record, makes
\* one inference call, and writes no slot of the research record
business_model_validation_agent(st, llm_ok, error) ==
    IF llm_ok
    THEN [update |->
            [current_step |-> "business_model_validation_complete",
             tools_used |-> Ledger(st.tools_used, <<"azure_llm">>)],
          events |->
            Events(<<>>, <<[schema |-> "validation", ok |-> TRUE]>>, {}, None,
                   FALSE)]
    ELSE [update |->
            [current_step |-> "business_model_validation_fallback",
             tools_used |-> Ledger(st.tools_used, <<"azure_llm">>),
             errors |->
                Append(st.errors,
                       <<"Business model validation failed: ", error>>)],
          events |->
            Events(<<>>, <<[schema |-> "validation", ok |-> FALSE]>>, {},
                   None, FALSE)]

\* ------------------------------------------------------------------------
\* graph/workflow.py : the graph, and how a node's update is folded in
\* ------------------------------------------------------------------------

END == "__end__"

\* add_node(name, function)
Nodes ==
    [market_research |-> "market_research_agent",
     pain_point_discovery |-> "pain_point_discovery_agent",
     user_persona_analysis |-> "user_persona_analysis_agent",
     business_model_generator_agent |-> "business_model_generator_agent",
     niche_opportunity_scanner |-> "niche_opportunity_scanner_agent",
     business_model_generator |-> "business_model_generator_agent",
     business_model_validation |-> "business_model_validation_agent"]

\* set_entry_point
EntryPoint == "market_research"

\* the edges with the first two stages after the entry point exchanged
EdgesReordered ==
    {<<"market_research", "user_persona_analysis">>,
     <<"user_persona_analysis", "pain_point_discovery">>,
     <<"pain_point_discovery", "niche_opportunity_scanner">>,
     <<"niche_opportunity_scanner", "business_model_generator">>,
     <<"business_model_generator", "business_model_validation">>,
     <<"business_model_validation", END>>}

\* the edges with the node "business_model_generator_agent" wired in too
EdgesWithExtraNode ==
    {<<"market_research", "pain_point_discovery">>,
     <<"pain_point_discovery", "user_persona_analysis">>,
     <<"user_persona_analysis", "business_model_generator_agent">>,
     <<"user_persona_analysis", "niche_opportunity_scanner">>,
     <<"niche_opportunity_scanner", "business_model_generator">>,
     <<"business_model_generator", "business_model_validation">>,
     <<"business_model_validation", END>>}

\* the edges without the one from the scanner to the idea generator
EdgesCut ==
    {<<"market_research", "pain_point_discovery">>,
     <<"pain_point_discovery", "user_persona_analysis">>,
     <<"user_persona_analysis", "niche_opportunity_scanner">>,
     <<"business_model_generator", "business_model_validation">>,
     <<"business_model_validation", END>>}

\* add_edge(from, to)
Edges ==
    {<<"market_research", "pain_point_discovery">>,
     <<"pain_point_discovery", "user_persona_analysis">>,
     <<"user_persona_analysis", "niche_opportunity_scanner">>,
     <<"niche_opportunity_scanner", "business_model_generator">>,
     <<"business_model_generator", "business_model_validation">>,
     <<"business_model_validation", END>>}

\* the nodes an edge from n triggers
Successors(n) == {e[2] : e \in {d \in Edges : d[1] = n}} \ {END}

\* a fold that builds a fresh state from the update: the fields not returned
\* get the values of a new request
FoldIntoFresh(st, update) ==
    [k \in DOMAIN st |->
        IF k \in DOMAIN update
        THEN IF k = "research_output"
             THEN ValidateResearchOutput(update[k])
             ELSE update[k]
        ELSE IF k = "user_input"
        THEN [industry_market |-> "E-commerce",
              country_region |-> "United States"]
        ELSE st[k]]

\* a fold that adds a returned errors list to the one of the state
FoldAdding(st, update) ==
    [k \in DOMAIN st |->
        IF k \in DOMAIN update
        THEN IF k = "research_output"
             THEN ValidateResearchOutput(update[k])
             ELSE IF k = "errors" THEN st[k] \o update[k]
             ELSE update[k]
        ELSE st[k]]

\* StateGraph(BusinessIdeaGenerationState): a returned key that is a field of
\* the state replaces the field, any other key is dropped, a field not
\* returned keeps its value; the next node gets the state validated, which
\* turns a research_output dict into a Phase1ResearchOutput
Fold(st, update) ==
    [k \in DOMAIN st |->
        IF k \in DOMAIN update
        THEN IF k = "research_output"
             THEN ValidateResearchOutput(update[k])
             ELSE update[k]
        ELSE st[k]]

\* ------------------------------------------------------------------------
\* State
\*   state    : the BusinessIdeaGenerationState the graph holds
\*   active   : the nodes triggered to run next
\*   executed : the nodes that have run, in order
\*   last     : what the last node that ran did (its calls, its update)
\*   harness  : "workflow" when the compiled graph drives the agents,
\*              "direct" when one agent function is called on a given state
\*   result   : what test_separated_workflow (main.py) has returned
\* ------------------------------------------------------------------------

\* graph/state.py : BusinessIdeaGenerationState(user_input=..., current_step=
\* "initialization"), the other fields at their defaults
InitialState(user_input) ==
    [user_input |-> user_input, phase1_complete |-> FALSE,
     research_output |-> None, current_step |-> "initialization",
     errors |-> <<>>, tools_used |-> <<>>]

\* test_separated_workflow has not returned
NotReturned == [model |-> "NotReturned"]

NoStage ==
    [node |-> "none", calls_issued |-> 0, calls_failed |-> 0,
     llm_calls |-> 0, llm_failed |-> 0, fallbacks |-> {}, keys |-> {},
     produced |-> None, other_fault |-> FALSE, calls_ok |-> TRUE]

Failed(call) == ~call.ok

\* the provider itself raised: the scanner's search_tweets calls fail at the
\* call site (unexpected keyword) without reaching the provider
ProviderRaised(n, call) ==
    /\ ~call.ok
    /\ ~(Nodes[n] = "niche_opportunity_scanner_agent"
            /\ call.tool = "search_tweets")

\* the record of a node's run kept in `last`; calls_ok: no provider call and
\* no inference call has raised, in this node or in one before it
Summary(n, r) ==
    [node |-> n,
     calls_issued |-> Len(r.events.provider_calls),
     calls_failed |-> Len(SelectSeq(r.events.provider_calls, Failed)),
     llm_calls |-> Len(r.events.llm_calls),
     llm_failed |-> Len(SelectSeq(r.events.llm_calls, Failed)),
     fallbacks |-> r.events.fallbacks,
     keys |-> DOMAIN r.update,
     produced |-> r.events.produced,
     other_fault |-> r.events.other_fault,
     calls_ok |->
        /\ last.calls_ok
        /\ \A i \in 1..Len(r.events.provider_calls) :
              ~ProviderRaised(n, r.events.provider_calls[i])
        /\ \A i \in 1..Len(r.events.llm_calls) : r.events.llm_calls[i].ok]

\* main.py : the input of test_separated_workflow
MainUserInput ==
    [industry_market |-> "transportation", country_region |-> "Italia"]

Init ==
    /\ state = InitialState(MainUserInput)
    /\ active = {EntryPoint}
    /\ executed = <<>>
    /\ last = NoStage
    /\ harness = "workflow"
    /\ result = NotReturned

\* node n returned r: its update is folded in and its successors triggered
Complete(n, r) ==
    /\ state' = Fold(state, r.update)
    /\ active' = (active \ {n})
                    \cup (IF harness = "workflow" THEN Successors(n) ELSE {})
    /\ executed' = Append(executed, n)
    /\ last' = Summary(n, r)
    /\ UNCHANGED <<harness, result>>

Triggered(agent) == {n \in active : Nodes[n] = agent}

\* the inference outcome of a call that is made only if `made`
OutcomesIf(made, schema) ==
    IF made THEN LLMOutcomes(schema) ELSE {Raised(NoError)}

MarketResearch ==
    \E n \in Triggered("market_research_agent") :
    \E trend_ok \in Outcomes(Len(trend_queries(""))),
       reddit_ok \in Outcomes(Len(reddit_queries(""))),
       dumps_error \in DumpsErrors :
    \E llm_market \in OutcomesIf(dumps_error = NoError, "MarketResearchOutput"),
       llm_pain \in OutcomesIf(dumps_error = NoError,
                               "PainPointDiscoveryOutput") :
        Complete(n, market_research_agent(state, trend_ok, reddit_ok,
                                          llm_market, llm_pain, dumps_error))

PainPointDiscovery ==
    \E n \in Triggered("pain_point_discovery_agent") :
    \E reddit_ok \in Outcomes(Len(reddit_queries(""))),
       twitter_ok \in Outcomes(Len(twitter_queries(""))),
       dumps_error \in DumpsErrors :
    \E llm \in OutcomesIf(dumps_error = NoError, "PainPointDiscoveryOutput") :
        Complete(n, pain_point_discovery_agent(state, reddit_ok, twitter_ok,
                                               llm, dumps_error))

UserPersonaAnalysis ==
    \E n \in Triggered("user_persona_analysis_agent") :
    \E reddit_ok \in Outcomes(Len(persona_queries(""))),
       dumps_error \in DumpsErrors :
    \E llm \in OutcomesIf(dumps_error = NoError, "UserPersonaAnalysisOutput") :
        Complete(n, user_persona_analysis_agent(state, reddit_ok, llm,
                                                dumps_error))

NicheOpportunityScanner ==
    \E n \in Triggered("niche_opportunity_scanner_agent") :
        IF state.research_output = None
        THEN Complete(n, niche_opportunity_scanner_agent(
                            state, <<>>, 0, Raised(NoError), NoError, FALSE))
        ELSE
        \E reddit_ok \in Outcomes(Len(NicheSubdomains(state))),
           failing_trend \in 0..Len(NicheTrendQueries(state)),
           dumps_error \in DumpsErrors :
        \E llm \in OutcomesIf(dumps_error = NoError,
                              "NicheOpportunityScannerOutput") :
        \E write_ok \in IF llm.ok THEN BOOLEAN ELSE {FALSE} :
            Complete(n, niche_opportunity_scanner_agent(
                            state, reddit_ok, failing_trend, llm, dumps_error,
                            write_ok))

BusinessModelGenerator ==
    \E n \in Triggered("business_model_generator_agent") :
    \E dumps_error \in IF state.research_output = None THEN {NoError}
                       ELSE DumpsErrors :
    \E llm \in OutcomesIf(state.research_output # None /\ dumps_error = NoError,
                          "BusinessModelGeneratorOutput") :
        Complete(n, business_model_generator_agent(state, llm, dumps_error))

BusinessModelValidation ==
    \E n \in Triggered("business_model_validation_agent") :
    \E llm_ok \in BOOLEAN :
    \E error \in IF llm_ok THEN {NoError} ELSE LLMErrors :
        Complete(n, business_model_validation_agent(state, llm_ok, error))

Next ==
    \/ MarketResearch
    \/ PainPointDiscovery
    \/ UserPersonaAnalysis
    \/ NicheOpportunityScanner
    \/ BusinessModelGenerator
    \/ BusinessModelValidation

Spec == Init /\ [][Next]_vars

\* ------------------------------------------------------------------------
\* main.py : test_separated_workflow after workflow.invoke
\* ------------------------------------------------------------------------

\* line 99: the path the report is opened at
ReportPath == ""

\* open(path, "w") raises: the empty path names no file
OpenRaises(path) == path = ""

\* lines 48-109, given the dict workflow.invoke returned: the combined record
\* is built when the three top-level result keys are present, the report is
\* written, and the dict is returned; any exception on the way gives None
test_separated_workflow(final_state) ==
    LET Get(k) == IF k \in DOMAIN final_state THEN final_state[k] ELSE None
        combined ==
            /\ Get("market_research") # None
            /\ Get("pain_point_discovery") # None
            /\ Get("user_persona_analysis") # None
        returned ==
            IF combined
            THEN [final_state EXCEPT
                    !.research_output =
                        New("Phase1ResearchOutput",
                            [market_research |-> Get("market_research"),
                             pain_point_discovery |->
                                Get("pain_point_discovery"),
                             user_persona_analysis |->
                                Get("user_persona_analysis"),
                             research_quality_score |->
                                <<Max(Get("market_research").confidence_score,
                                      Max(Get("pain_point_discovery").confidence_score,
                                          Get("user_persona_analysis").confidence_score))>>,
                             next_steps_recommendation |->
                                <<"Phase 1 complete. Ready for business idea generation.">>])]
            ELSE final_state
    IN  IF OpenRaises(ReportPath) THEN None ELSE returned

\* workflow.invoke has returned: the graph was driven to its end
InvokeReturned == harness = "workflow" /\ active = {}

\* the rest of test_separated_workflow runs on the state invoke returned
ReportAndReturn ==
    /\ InvokeReturned
    /\ result = NotReturned
    /\ result' = test_separated_workflow(state)
    /\ UNCHANGED <<state, active, executed, last, harness>>

NextMain == Next \/ ReportAndReturn

SpecMain == Init /\ [][NextMain]_vars

\* ------------------------------------------------------------------------
\* One agent function called on a given state
\* ------------------------------------------------------------------------

\* the direct calls start from states whose errors and tools_used hold at
\* most this many earlier entries
MaxPrior == 1

\* the sequences of at most MaxPrior copies of x
Prior(x) == {[i \in 1..k |-> x] : k \in 0..MaxPrior}

\* a populated slot: the fuller of the values the model returns
SampleValue(slot) ==
    CHOOSE v \in LLMValues(SlotSchema(slot)) : v.confidence_score >= 70

\* the research record with exactly the slots of `populated` set
RecordWith(populated) ==
    New("Phase1ResearchOutput",
        [s \in populated |-> SampleValue(s)])

\* the records a direct call starts from: none, an empty one, the first two
\* stages' slots, the later stages' slots, every slot
DirectRecords ==
    {None}
        \cup {RecordWith(p) :
                p \in {{}, {"market_research", "pain_point_discovery"},
                       {"user_persona_analysis", "niche_opportunity",
                        "business_model_generator"},
                       Slots}}

DirectStates ==
    {[user_input |-> u, phase1_complete |-> FALSE, research_output |-> r,
      current_step |-> "initialization", errors |-> e, tools_used |-> t] :
        u \in UserInputs, r \in DirectRecords,
        e \in Prior(<<"Earlier stage failed: ", "Request timed out">>),
        t \in Prior("azure_llm")}

InitDirect ==
    /\ state \in DirectStates
    /\ \E n \in DOMAIN Nodes : active = {n}
    /\ executed = <<>>
    /\ last = NoStage
    /\ harness = "direct"
    /\ result = NotReturned

SpecAgents == InitDirect /\ [][Next]_vars

\* ------------------------------------------------------------------------
\* The pipeline with its scheduling: workflow.invoke runs a triggered node
\* ------------------------------------------------------------------------

\* a step of Next is possible exactly when a node is triggered: every action
\* takes any triggered node of its agent, with outcomes drawn from sets that
\* are not empty
NodeTriggered == active # {}

\* weak fairness of Next, []<>~ENABLED <<Next>>_vars \/ []<><<Next>>_vars,
\* written out: NodeTriggered is the enabling condition, and under
\* [][Next]_vars a step that changes vars is a step of Next. It says that a
\* run does not stop while a node is triggered (each call returns or raises).
NodesRun == []<>(~NodeTriggered) \/ []<><<TRUE>>_vars

SpecLive == Init /\ [][Next]_vars /\ NodesRun

\* ------------------------------------------------------------------------
\* Vocabulary of the properties
\* ------------------------------------------------------------------------

\* the value of slot s of the research record of st (None when the whole
\* record is None)
Slot(st, s) ==
    IF st.research_output = None THEN None ELSE st.research_output[s]

\* the slot each agent is to write ("none": the validation stage has none)
OwnSlot(agent) ==
    CASE agent = "market_research_agent" -> "market_research"
      [] agent = "pain_point_discovery_agent" -> "pain_point_discovery"
      [] agent = "user_persona_analysis_agent" -> "user_persona_analysis"
      [] agent = "niche_opportunity_scanner_agent" -> "niche_opportunity"
      [] agent = "business_model_generator_agent" -> "business_model_generator"
      [] OTHER -> "none"

\* the label each agent returns when its inference call succeeded
SuccessLabel(agent) ==
    CASE agent = "market_research_agent" -> "market_research_complete"
      [] agent = "pain_point_discovery_agent" -> "pain_point_discovery_complete"
      [] agent = "user_persona_analysis_agent" ->
           "user_persona_analysis_complete"
      [] agent = "niche_opportunity_scanner_agent" ->
           "niche_opportunity_scanner_complete"
      [] agent = "business_model_generator_agent" ->
           "business_model_generator_complete"
      [] OTHER -> "business_model_validation_complete"

\* the labels a node can leave in current_step
NodeLabels(n) ==
    LET stem == IF n = "business_model_generator_agent"
                THEN "business_model_generator" ELSE n
    IN  {stem \o "_complete", stem \o "_failed", stem \o "_fallback"}

\* the list of a structured result the fallback constructor fills
ListField(s) ==
    CASE s = "market_research" -> "market_trends"
      [] s = "pain_point_discovery" -> "pain_points"
      [] s = "user_persona_analysis" -> "primary_personas"
      [] s = "niche_opportunity" -> "niches"
      [] s = "business_model_generator" -> "ideas"

\* the fallback value the last node built for slot s: the idea generator's is
\* in what it produced, the others' are in the record
FallbackValue(s) ==
    IF s = "business_model_generator" THEN last.produced ELSE Slot(state, s)

\* the provider calls an agent's gather step means to make from state st
ExpectedCalls(agent, st) ==
    LET industry == st.user_input.industry_market
    IN  CASE agent = "market_research_agent" ->
               Len(trend_queries(industry)) + Len(reddit_queries(industry))
          [] agent = "pain_point_discovery_agent" ->
               Len(reddit_queries(industry)) + Len(twitter_queries(industry))
          [] agent = "user_persona_analysis_agent" ->
               Len(persona_queries(industry))
          [] agent = "niche_opportunity_scanner_agent" ->
               IF st.research_output = None THEN 0
               ELSE 2 * Len(NicheSubdomains(st)) + Len(NicheTrendQueries(st))
          [] OTHER -> 0

\* the order of the stages
Chain ==
    <<"market_research", "pain_point_discovery", "user_persona_analysis",
      "niche_opportunity_scanner", "business_model_generator",
      "business_model_validation">>

\* how often node n has run
TimesRun(n) == Cardinality({i \in 1..Len(executed) : executed[i] = n})

\* how often the agent function has run, under whatever node name
TimesCalled(agent) ==
    Cardinality({i \in 1..Len(executed) : Nodes[executed[i]] = agent})

\* a node has just run in this step
Ran == executed' # executed

\* s is a prefix of t
IsPrefix(s, t) == Len(s) <= Len(t) /\ SubSeq(t, 1, Len(s)) = s

\* ------------------------------------------------------------------------
\* Properties
\* ------------------------------------------------------------------------

\* C1 Non-destructive merge: whenever an agent has built a value for its
\* slot and its update is folded in, every other slot of the research record
\* keeps the value it had and the agent's slot holds the value it built.
C1_NonDestructiveMerge ==
    [][(Ran /\ last'.produced # None) =>
          LET own == OwnSlot(Nodes[last'.node])
          IN  /\ \A s \in Slots \ {own} : Slot(state', s) = Slot(state, s)
              /\ Slot(state', own) = last'.produced]_vars

\* C2 Slot ownership: a step that changes the value of a slot of the
\* research record is a step of the agent that owns the slot (so no other
\* agent ever puts a different value into a populated slot).
C2_SlotOwnership ==
    [][\A s \in Slots :
          Slot(state', s) # Slot(state, s) =>
              OwnSlot(Nodes[last'.node]) = s]_vars

\* C3 Fallback totality: after any of the five agents has run, whatever its
\* provider calls and its inference call did and whatever the record held
\* (nothing else having failed), its update carries the research record and
\* the agent's own slot holds a value of the slot's schema.
C3_FallbackTotality ==
    (/\ last.node # "none"
     /\ OwnSlot(Nodes[last.node]) \in Slots
     /\ ~last.other_fault)
        => LET own == OwnSlot(Nodes[last.node])
           IN  /\ "research_output" \in last.keys
               /\ Slot(state, own) # None
               /\ Slot(state, own).model = SlotSchema(own)
               /\ Slot(state, own).confidence_score \in 0..100

\* C4 Fallback label: a node that substituted a fallback value does not
\* leave its success label in current_step.
C4_FallbackLabel ==
    (last.node # "none" /\ last.fallbacks # {})
        => state.current_step # SuccessLabel(Nodes[last.node])

\* C5 Inference failure is recorded and non-fatal: a node one of whose
\* inference calls failed returns an update, errors grows by exactly one
\* message behind the earlier ones, and the next stage is triggered.
C5_InferenceFailureRecorded ==
    [][(Ran /\ last'.llm_failed > 0) =>
          /\ last'.keys # {}
          /\ Len(state'.errors) = Len(state.errors) + 1
          /\ IsPrefix(state.errors, state'.errors)
          /\ active' = Successors(last'.node)]_vars

\* C6 At-least-one-item: every fallback value the last node built has exactly
\* one entry in its list.
C6_OneCanonicalEntry ==
    \A s \in last.fallbacks : Len(FallbackValue(s)[ListField(s)]) = 1

\* C7 Provider fault isolation: when a provider call of a node's gather step
\* failed (nothing but provider or inference calls having failed), the node
\* still issued every provider call of its gather step, reached its inference
\* call, and the next stage is triggered.
C7_ProviderFaultIsolation ==
    [][(Ran /\ last'.calls_failed > 0 /\ ~last'.other_fault) =>
          /\ last'.calls_issued = ExpectedCalls(Nodes[last'.node], state)
          /\ last'.llm_calls >= 1
          /\ active' = Successors(last'.node)]_vars

\* C8 Pipeline order: the nodes that have run are an initial part of the
\* chain, in its order; exactly the next stage of the chain is triggered; and
\* the state a stage starts from is the one its predecessor left, carrying
\* one of the predecessor's labels in current_step.
C8_PipelineOrder ==
    /\ IsPrefix(executed, Chain)
    /\ active = IF Len(executed) < Len(Chain)
                THEN {Chain[Len(executed) + 1]} ELSE {}
    /\ executed # <<>> =>
          /\ last.node = executed[Len(executed)]
          /\ state.current_step \in NodeLabels(last.node)
    /\ executed = <<>> => state.current_step = "initialization"

\* a run that has gone through the whole chain
C8_Witness == Len(executed) = Len(Chain) /\ active = {}

\* C9 No skipping: no node runs twice, the idea generator's function runs at
\* most once although it is registered under two node names, and a run ends
\* only when every stage of the chain has run exactly once, whatever labels
\* and errors the earlier stages left.
C9_NoSkipping ==
    /\ \A n \in DOMAIN Nodes : TimesRun(n) <= 1
    /\ TimesCalled("business_model_generator_agent") <= 1
    /\ active # {} => \A n \in active : TimesRun(n) = 0
    /\ active = {} => \A i \in 1..Len(Chain) : TimesRun(Chain[i]) = 1

\* a finished run in which the scanner failed and the idea generator, which
\* ran after it, fell back
C9_Witness ==
    /\ active = {}
    /\ \E i \in 1..Len(state.errors) :
          state.errors[i][1] = "Niche opportunity scanner failed: "
    /\ \E i \in 1..Len(state.errors) :
          state.errors[i][1] = "Business model generator failed: "
    /\ TimesRun("business_model_validation") = 1

\* C10 Ledger monotonicity: no step shortens tools_used or changes its
\* earlier entries.
C10_LedgerMonotone ==
    [][IsPrefix(state.tools_used, state'.tools_used)]_vars

\* a stage that failed right after stages that had filled the ledger
C10_Witness ==
    /\ last.node = "niche_opportunity_scanner"
    /\ state.current_step = "niche_opportunity_scanner_failed"
    /\ Len(state.tools_used) >= 7

\* the label a node returns from its outer handler
FailedLabel(n) ==
    (IF n = "business_model_generator_agent" THEN "business_model_generator"
     ELSE n) \o "_failed"

\* the message a stage's outer handler starts with
FailureMessage(agent) ==
    CASE agent = "market_research_agent" -> "Market research failed: "
      [] agent = "pain_point_discovery_agent" -> "Pain point discovery failed: "
      [] agent = "user_persona_analysis_agent" ->
           "User persona analysis failed: "
      [] agent = "niche_opportunity_scanner_agent" ->
           "Niche opportunity scanner failed: "
      [] agent = "business_model_generator_agent" ->
           "Business model generator failed: "
      [] OTHER -> "Business model validation failed: "

\* C11 Ledger growth on completion: a step in which a stage completes, with
\* a model-derived result or with a fallback result (any label but its
\* failure label), leaves tools_used strictly longer than it was.
C11_LedgerGrowsOnCompletion ==
    [][(Ran /\ state'.current_step # FailedLabel(last'.node)) =>
          Len(state'.tools_used) > Len(state.tools_used)]_vars

\* C12 Scenario, failing provider: after the market-research stage has run
\* for E-commerce / United States with every provider call failing (nothing
\* else but inference calls failing), current_step is a fallback label, errors
\* holds a message starting "Market research failed", and the market_research
\* slot is populated with the fallback's default number of trends.
C12_FailingProviderScenario ==
    (/\ last.node = "market_research"
     /\ state.user_input.industry_market = "E-commerce"
     /\ last.calls_issued = ExpectedCalls("market_research_agent", state)
     /\ last.calls_failed = last.calls_issued
     /\ ~last.other_fault)
        => /\ state.current_step \in NodeLabels("market_research")
           /\ state.current_step # SuccessLabel("market_research_agent")
           /\ \E i \in 1..Len(state.errors) :
                 state.errors[i][1] = FailureMessage("market_research_agent")
           /\ Slot(state, "market_research") # None
           /\ Len(Slot(state, "market_research").market_trends)
                 = NumFallbackTrends

\* C13 Scenario, all succeed: when the last stage has run and every provider
\* call and every inference call of every stage has succeeded, all five
\* research slots are populated, errors is empty and current_step is the
\* last stage's success label.
C13_AllSucceedScenario ==
    (active = {} /\ last.node = Chain[Len(Chain)] /\ last.calls_ok)
        => /\ \A s \in Slots : Slot(state, s) # None
           /\ state.errors = <<>>
           /\ state.current_step = SuccessLabel(Nodes[last.node])

\* C14 Fatal failures propagate: a step in which something raised in an
\* agent outside its guarded provider calls and its guarded inference call
\* returns no update, leaves the state as it was and triggers no later stage.
C14_FatalFailuresPropagate ==
    [][(Ran /\ last'.other_fault) =>
          /\ last'.keys = {}
          /\ state' = state
          /\ active' = {}]_vars

\* C15 Provider failures are logged: a step in which provider calls of the
\* stage failed adds at least one message per failed call to errors, so errors
\* is not empty afterwards.
C15_ProviderFailuresLogged ==
    [][(Ran /\ last'.calls_failed > 0) =>
          /\ Len(state'.errors) >= Len(state.errors) + last'.calls_failed
          /\ IsPrefix(state.errors, state'.errors)
          /\ state'.errors # <<>>]_vars

\* the runs of an agent from state st, under any provider outcomes, in which
\* every inference call returns the very value found in its slot of the state
\* `after` (all of them model-produced runs: no fallback is built)
ModelRuns(agent, st, after) ==
    CASE agent = "market_research_agent" ->
           {market_research_agent(
                st, trend_ok, reddit_ok,
                Returned(Slot(after, "market_research")),
                Returned(Slot(after, "pain_point_discovery")), NoError) :
              trend_ok \in Outcomes(Len(trend_queries(""))),
              reddit_ok \in Outcomes(Len(reddit_queries("")))}
      [] agent = "pain_point_discovery_agent" ->
           {pain_point_discovery_agent(
                st, reddit_ok, twitter_ok,
                Returned(Slot(after, "pain_point_discovery")), NoError) :
              reddit_ok \in Outcomes(Len(reddit_queries(""))),
              twitter_ok \in Outcomes(Len(twitter_queries("")))}
      [] agent = "user_persona_analysis_agent" ->
           {user_persona_analysis_agent(
                st, reddit_ok, Returned(Slot(after, "user_persona_analysis")),
                NoError) :
              reddit_ok \in Outcomes(Len(persona_queries("")))}
      [] OTHER -> {}

\* C16 Distinguishability: when a stage has put a fallback value into a slot,
\* no run of the same stage from the same state in which the model produced
\* the slot's value ends in the same state (same current_step, errors,
\* tools_used and research record); two runs that agree up to such a stage
\* and after it would end in the same final state.
C16_Distinguishability ==
    [][(Ran /\ last'.fallbacks # {}) =>
          \A r \in ModelRuns(Nodes[last'.node], state, state') :
              r.events.fallbacks = {} => Fold(state, r.update) # state']_vars

\* C17 Absent upstream data is tolerated: when the niche scanner or the
\* business-model generator runs from a state whose research record, or one
\* of its slots, is not populated, and nothing else fails, the stage makes its
\* inference call and does not end with a failure or fallback label unless
\* that call failed. (The scanner calls its social provider with a keyword the
\* provider does not take; those calls are guarded and beside the point.)
C17_AbsentUpstreamTolerated ==
    [][(/\ Ran
        /\ Nodes[last'.node] \in {"niche_opportunity_scanner_agent",
                                  "business_model_generator_agent"}
        /\ \/ state.research_output = None
           \/ \E s \in Slots : Slot(state, s) = None
        /\ ~last'.other_fault) =>
          /\ last'.llm_calls >= 1
          /\ last'.llm_failed = 0 =>
                state'.current_step = SuccessLabel(Nodes[last'.node])]_vars

\* C18 Termination: every run of the pipeline, whatever provider and
\* inference calls fail in it, reaches the state after the last stage of the
\* chain with nothing left to run.
C18_Termination ==
    <>(active = {} /\ executed # <<>>
          /\ executed[Len(executed)] = Chain[Len(Chain)])

\* the end of a run in which the first three stages took their failure path
C18_Witness ==
    /\ active = {}
    /\ Len(executed) = Len(Chain)
    /\ Len(state.errors) >= 4
    /\ state.research_output = None

\* C19 User input is immutable: no step changes user_input, the update a
\* node returns never has a user_input key, and user_input stays the one the
\* pipeline was started with.
C19_UserInputImmutable ==
    [][/\ state'.user_input = state.user_input
       /\ state'.user_input = MainUserInput
       /\ Ran => "user_input" \notin last'.keys]_vars

\* a run that went through a failure path, a fallback path and success paths
C19_Witness ==
    /\ last.node = "business_model_generator"
    /\ state.current_step = "business_model_generator_fallback"
    /\ \E i \in 1..Len(state.errors) :
          state.errors[i][1] = FailureMessage("pain_point_discovery_agent")
    /\ Slot(state, "market_research") # None
    /\ state.user_input = MainUserInput

\* C20 State unchanged on stage failure: a step that ends with the stage's
\* failure label changes nothing of the state but current_step and errors.
C20_UnchangedOnFailure ==
    [][(Ran /\ state'.current_step = FailedLabel(last'.node)) =>
          /\ state'.research_output = state.research_output
          /\ state'.tools_used = state.tools_used
          /\ state'.phase1_complete = state.phase1_complete
          /\ state'.user_input = state.user_input
          /\ last'.keys \subseteq {"current_step", "errors"}]_vars

\* the scanner has failed on a state with a populated record and ledger
C20_Witness ==
    /\ last.node = "niche_opportunity_scanner"
    /\ state.current_step = FailedLabel("niche_opportunity_scanner")
    /\ Slot(state, "user_persona_analysis") # None
    /\ state.phase1_complete
    /\ state.tools_used # <<>>

\* ------------------------------------------------------------------------
\* Scores, serialization, errors and labels
\* ------------------------------------------------------------------------

\* graph/state.py : the ge/le bounds of the numeric score fields of each
\* class (float scores in tenths)
ScoreBounds(schema) ==
    CASE schema = "MarketTrend" -> [relevance_score |-> <<0, 100>>]
      [] schema = "PainPoint" ->
           [frequency_score |-> <<1, 10>>, urgency_score |-> <<1, 10>>,
            automation_potential |-> <<0, 100>>]
      [] schema = "NicheOpportunity" -> [trend_score |-> <<0, 100>>]
      [] schema = "BusinessIdea" -> [feasibility_score |-> <<0, 100>>]
      [] schema \in {SlotSchema(s) : s \in Slots} ->
           [confidence_score |-> <<0, 100>>]
      [] OTHER -> << >>

\* every bounded score of the model instance v is within its bounds
WithinBounds(v) ==
    LET bounds == ScoreBounds(v.model)
    IN  \A f \in DOMAIN bounds : bounds[f][1] <= v[f] /\ v[f] <= bounds[f][2]

\* the same of an output value and of the items of its lists
ScoresInRange(v) ==
    /\ WithinBounds(v)
    /\ \A f \in DOMAIN ItemSchema(v.model) :
          \A i \in 1..Len(v[f]) : WithinBounds(v[f][i])

\* the fallback constructors of market research are also applied to every
\* number of gathered entries up to this many
MaxGathered == 8

\* a gathered list of n entries
GatheredEntries(n) ==
    [i \in 1..n |-> [query |-> <<"query ", Str(i)>>, results |-> RawResult]]

\* the two fallback values market research builds from the gathered lists
MarketFallbacks(trend_data, reddit_insights, industry) ==
    LET fallback == parse_api_data(trend_data, reddit_insights, industry)
    IN  {MarketResearchFallback(industry, fallback.market_trends),
         MarketPainPointsFallback(industry, fallback.pain_points,
                                  reddit_insights)}

\* C21: every numeric score of a fallback-constructed result lies within the
\* bounds of the schema: the fallback values the node that just ran has
\* built, and the market-research fallback values (scores 8 - i, 7 - i,
\* 10 - 2i per item index i) for every number of gathered trend and forum
\* entries
C21_FallbackScoresInRange ==
    /\ \A s \in last.fallbacks : ScoresInRange(FallbackValue(s))
    /\ last.node = "market_research" =>
          \A t \in 0..MaxGathered, r \in 0..MaxGathered :
              \A v \in MarketFallbacks(GatheredEntries(t), GatheredEntries(r),
                                       state.user_input.industry_market) :
                  ScoresInRange(v)

\* market research has built both fallback values from three gathered trend
\* entries and three gathered forum entries: the last scores are 8 - 2 and
\* 7 - 2
C21_Witness ==
    /\ last.node = "market_research"
    /\ last.fallbacks = {"market_research", "pain_point_discovery"}
    /\ Len(Slot(state, "market_research").market_trends) = 3
    /\ Slot(state, "market_research").market_trends[3].relevance_score = 60
    /\ Len(Slot(state, "pain_point_discovery").pain_points) = 3
    /\ Slot(state, "pain_point_discovery").pain_points[3].frequency_score = 5

\* which provider calls of an agent's gather loops succeed: one tuple of
\* flags per loop (the scanner and the later stages build no fallback from
\* gathered results)
ProviderOutcomes(agent) ==
    CASE agent = "market_research_agent" ->
           {<<t, r>> : t \in Outcomes(Len(trend_queries(""))),
                       r \in Outcomes(Len(reddit_queries("")))}
      [] agent = "pain_point_discovery_agent" ->
           {<<r, t>> : r \in Outcomes(Len(reddit_queries(""))),
                       t \in Outcomes(Len(twitter_queries("")))}
      [] agent = "user_persona_analysis_agent" ->
           {<<r>> : r \in Outcomes(Len(persona_queries("")))}
      [] OTHER -> {<< >>}

\* the outcomes of an agent's inference calls, one per call
InferenceOutcomes(agent) ==
    CASE agent = "market_research_agent" ->
           {<<m, p>> : m \in LLMOutcomes("MarketResearchOutput"),
                       p \in LLMOutcomes("PainPointDiscoveryOutput")}
      [] agent = "pain_point_discovery_agent" ->
           {<<p>> : p \in LLMOutcomes("PainPointDiscoveryOutput")}
      [] agent = "user_persona_analysis_agent" ->
           {<<p>> : p \in LLMOutcomes("UserPersonaAnalysisOutput")}
      [] agent = "business_model_generator_agent" ->
           {<<p>> : p \in LLMOutcomes("BusinessModelGeneratorOutput")}
      [] OTHER -> {}

\* the run of a fallback-building agent from st that reaches its inference
\* step with the provider outcomes ok and the inference outcomes llm
AgentRun(agent, st, ok, llm) ==
    CASE agent = "market_research_agent" ->
           market_research_agent(st, ok[1], ok[2], llm[1], llm[2], NoError)
      [] agent = "pain_point_discovery_agent" ->
           pain_point_discovery_agent(st, ok[1], ok[2], llm[1], NoError)
      [] agent = "user_persona_analysis_agent" ->
           user_persona_analysis_agent(st, ok[1], llm[1], NoError)
      [] agent = "business_model_generator_agent" ->
           business_model_generator_agent(st, llm[1], NoError)

\* the fallback value the run r built for slot s
BuiltFallback(r, s) ==
    IF s = "business_model_generator" THEN r.events.produced
    ELSE r.update.research_output[s]

\* one of the agent's inference calls failed in both outcome tuples
BothFailed(x1, x2) ==
    \E i \in DOMAIN x1 : ~x1[i].ok /\ ~x2[i].ok

\* C22 Fallback determinism: two runs of the agent about to run, from the
\* same state (same user input) and with the same provider outcomes (same
\* gathered results), build identical fallback values for every slot both
\* build one for, whatever the reasons of the inference failures and whatever
\* the model returned from the agent's other calls.
C22_FallbackDeterminism ==
    \A n \in active :
        LET agent == Nodes[n]
        IN  \A ok \in ProviderOutcomes(agent) :
                LET runs == {AgentRun(agent, state, ok, x) :
                                x \in InferenceOutcomes(agent)}
                IN  \A r1, r2 \in runs :
                        \A s \in r1.events.fallbacks \cap r2.events.fallbacks :
                            BuiltFallback(r1, s) = BuiltFallback(r2, s)

\* the pain-point agent is about to run on a populated record, and two of its
\* runs with the same gathered results (one forum call failed) have inference
\* failures with different reasons and both build the fallback value
C22_Witness ==
    /\ state.research_output # None
    /\ \E n \in active :
          /\ Nodes[n] = "pain_point_discovery_agent"
          /\ \E ok \in ProviderOutcomes(Nodes[n]) :
             \E x1, x2 \in InferenceOutcomes(Nodes[n]) :
                /\ \E i \in DOMAIN ok[1] : ~ok[1][i]
                /\ BothFailed(x1, x2)
                /\ x1[1].error # x2[1].error
                /\ AgentRun(Nodes[n], state, ok, x1).events.fallbacks
                      = {"pain_point_discovery"}
                /\ BuiltFallback(AgentRun(Nodes[n], state, ok, x2),
                                 "pain_point_discovery").confidence_score = 60

\* the stages after pain-point discovery
LaterStages ==
    {"user_persona_analysis", "niche_opportunity_scanner",
     "business_model_generator", "business_model_validation"}

\* C23 Serialization round-trip: a stored pain-point result (among them the
\* one with three pain points with scores in 1..10) dumped and validated
\* again has identical field values, and every later stage, which dumps the
\* whole record and has it validated again, leaves an equal pain_point_discovery
\* value to the stages after it.
C23_SerializationRoundTrip ==
    [][(/\ Ran
        /\ last'.node \in LaterStages
        /\ Slot(state, "pain_point_discovery") # None) =>
          LET v == Slot(state, "pain_point_discovery")
          IN  /\ ValidateOutput(v.model, DumpOutput(v)) = v
              /\ Slot(state', "pain_point_discovery") = v]_vars

\* persona analysis has merged its result into a record whose pain-point
\* result, stored by pain-point discovery, has three pain points with scores
\* from 1 to 10
C23_Witness ==
    /\ last.node = "user_persona_analysis"
    /\ "research_output" \in last.keys
    /\ executed = <<"market_research", "pain_point_discovery",
                    "user_persona_analysis">>
    /\ LET v == Slot(state, "pain_point_discovery")
       IN  /\ Len(v.pain_points) = 3
           /\ v.pain_points[1].frequency_score = 10
           /\ v.pain_points[1].urgency_score = 1
           /\ \A i \in 1..3 : IsModel(v.pain_points[i])

\* C24 Errors are append-only: the errors list after a stage has the errors
\* list before it as a prefix, and a stage adds at most one message.
C24_ErrorsAppendOnly ==
    [][Ran =>
          /\ IsPrefix(state.errors, state'.errors)
          /\ Len(state'.errors) <= Len(state.errors) + 1]_vars

\* two stages in a row have failed: the second added its message to a list
\* that already held the first one's
C24_Witness ==
    /\ executed = <<"market_research", "pain_point_discovery">>
    /\ Len(state.errors) = 2
    /\ state.errors[1][1] = "Market research failed: "
    /\ state.errors[2][1] = "Pain point discovery failed: "

\* C25 Label and error agree: for every stage whose agent is in the sources
\* (the five stages with a slot), the errors list grows by exactly one
\* message if and only if the stage leaves a *_failed or *_fallback label,
\* and research_output is a key of the stage's update if and only if it
\* leaves its *_complete label.
C25_LabelAndErrorAgree ==
    [][(Ran /\ OwnSlot(Nodes[last'.node]) # "none") =>
          LET complete == state'.current_step = SuccessLabel(Nodes[last'.node])
              failed ==
                state'.current_step
                    \in NodeLabels(last'.node)
                            \ {SuccessLabel(Nodes[last'.node])}
          IN  /\ complete \/ failed
              /\ failed <=>
                    /\ Len(state'.errors) = Len(state.errors) + 1
                    /\ IsPrefix(state.errors, state'.errors)
              /\ ~failed => state'.errors = state.errors
              /\ complete <=> "research_output" \in last'.keys]_vars

\* the scanner has ended with its failure label, one message added and no
\* research_output in its update, after three stages that completed
C25_Witness ==
    /\ last.node = "niche_opportunity_scanner"
    /\ state.current_step = "niche_opportunity_scanner_failed"
    /\ Len(state.errors) = 1
    /\ "research_output" \notin last.keys
    /\ "errors" \in last.keys

\* the slots of the first research phase
Phase1Slots ==
    {"market_research", "pain_point_discovery", "user_persona_analysis"}

\* C26 phase1_complete means Phase 1 is complete: in every state where
\* phase1_complete is true, the market_research, pain_point_discovery and
\* user_persona_analysis slots of the research record are all populated.
C26_Phase1CompleteMeansPopulated ==
    state.phase1_complete =>
        \A s \in Phase1Slots : Slot(state, s) # None

\* C27 Results live in the research record: whenever a stage has built a
\* structured result, from the model or as a fallback, the research record of
\* the state held after the stage has that result in the agent's slot; in
\* particular after idea generation, on either path, the
\* business_model_generator slot holds its result.
C27_ResultsInRecord ==
    [][(Ran /\ last'.produced # None) =>
          /\ state'.research_output # None
          /\ state'.research_output[OwnSlot(Nodes[last'.node])]
                = last'.produced]_vars

\* C28 The driver returns the final state: whenever workflow.invoke has
\* returned without raising and test_separated_workflow has returned, what it
\* returned is the workflow's final state, and not None.
C28_DriverReturnsFinalState ==
    (InvokeReturned /\ result # NotReturned) =>
        /\ result # None
        /\ result = state

\* the entry carries either results or an error
ResultsOrError(entry) == ("results" \in DOMAIN entry) # ("error" \in DOMAIN entry)

\* the entries of trend_data that are errors
TrendErrors(trend_data) ==
    {i \in 1..Len(trend_data) : "error" \in DOMAIN trend_data[i]}

\* C29 Niche scanner gather shape: when the scanner has run on a research
\* record, whatever its provider calls did, the signals list has exactly two
\* entries per subdomain, the forum one then the social one, each with results
\* or an error; the trend lookups share one guard, so the first failing lookup
\* is the last one made and leaves exactly one error entry, the last of
\* trend_data; and the calls the run issued are those of such a gather.
C29_NicheGatherShape ==
    [][(/\ Ran
        /\ last'.node = "niche_opportunity_scanner"
        /\ state.research_output # None) =>
          LET subdomains == NicheSubdomains(state)
              queries == NicheTrendQueries(state)
          IN  /\ \A reddit_ok \in [1..Len(subdomains) -> BOOLEAN] :
                    LET calls == NicheSignalCalls(subdomains, reddit_ok)
                        signals == NicheSignals(subdomains, calls)
                    IN  /\ Len(signals) = 2 * Len(subdomains)
                        /\ \A i \in 1..Len(subdomains) :
                              /\ signals[2 * i - 1].source = "reddit"
                              /\ signals[2 * i].source = "twitter"
                              /\ signals[2 * i - 1].subdomain = subdomains[i]
                              /\ signals[2 * i].subdomain = subdomains[i]
                              /\ ResultsOrError(signals[2 * i - 1])
                              /\ ResultsOrError(signals[2 * i])
                              /\ reddit_ok[i] <=>
                                    "results" \in DOMAIN signals[2 * i - 1]
              /\ \A failing \in 0..Len(queries) :
                    LET calls == NicheTrendCalls(queries, failing)
                        trend_data == NicheTrendData(calls)
                    IN  IF failing = 0
                        THEN /\ Len(trend_data) = Len(queries)
                             /\ TrendErrors(trend_data) = {}
                        ELSE /\ Len(calls) = failing
                             /\ Len(trend_data) = failing
                             /\ TrendErrors(trend_data) = {failing}
              /\ \E failing \in 0..Len(queries) :
                    /\ last'.calls_issued
                          = 2 * Len(subdomains)
                              + Len(NicheTrendCalls(queries, failing))
                    /\ last'.calls_failed
                          >= Len(subdomains) + (IF failing = 0 THEN 0 ELSE 1)]_vars

\* the scanner has run on a record with three subdomains and four trend
\* lookups to make, and the first lookup failed: six signal calls and one
\* trend call were issued
C29_Witness ==
    /\ last.node = "niche_opportunity_scanner"
    /\ state.research_output # None
    /\ Len(NicheSubdomains(state)) = 3
    /\ Len(NicheTrendQueries(state)) = 4
    /\ last.calls_issued = 2 * 3 + 1

\* the scanner's inference call was made and returned in the step taken
NicheInferred == last'.llm_calls = 1 /\ last'.llm_failed = 0

\* after a returned inference call the only thing left to raise is the write
\* of niche_opportunities.json
NicheWriteFailed == NicheInferred /\ last'.other_fault

\* C30 Niche persistence coupling: after the scanner has run in the pipeline,
\* the niche_opportunity slot is populated if and only if both its inference
\* call and the write of niche_opportunities.json succeeded; when the
\* inference call succeeded and the write failed, the result is discarded:
\* the record is as before, the label is niche_opportunity_scanner_failed and
\* exactly one message was added.
C30_NichePersistenceCoupling ==
    [][(Ran /\ last'.node = "niche_opportunity_scanner") =>
          /\ Slot(state', "niche_opportunity") # None
                <=> (NicheInferred /\ ~NicheWriteFailed)
          /\ NicheWriteFailed =>
                /\ state'.research_output = state.research_output
                /\ state'.current_step = "niche_opportunity_scanner_failed"
                /\ state'.errors
                      = Append(state.errors,
                               <<"Niche opportunity scanner failed: ",
                                 WriteError>>)]_vars

\* the scanner's inference call returned and the file could not be written:
\* the stage has ended with its failure label and the slot is empty
C30_Witness ==
    /\ last.node = "niche_opportunity_scanner"
    /\ last.llm_calls = 1
    /\ last.llm_failed = 0
    /\ last.other_fault
    /\ state.current_step = "niche_opportunity_scanner_failed"
    /\ Slot(state, "niche_opportunity") = None
    /\ state.errors[Len(state.errors)][2] = WriteError

====
